---- MODULE Spec2Model ----
(***************************************************************************)
(* A model of the request executor of httpclient.go: the six verb entry    *)
(* points, newRequest, doRequest and do, run by one caller or by several   *)
(* callers concurrently against one Client, an injected transport and the  *)
(* log sink.                                                               *)
(***************************************************************************)
EXTENDS Integers, Sequences, FiniteSets, TLC

\* ------------------------------------------------------------------ bounds

\* Number of calls that run concurrently on one Client in ConcSpec.
NumCalls == 2

\* Longest response body, in bytes.
MaxBody == 3

Calls == 1..NumCalls

\* ------------------------------------------------------- program constants

StatusOK == 200
StatusCreated == 201
StatusAccepted == 202
StatusNoContent == 204
StatusBadRequest == 400
StatusUnauthorized == 401
StatusForbidden == 403
StatusNotFound == 404
StatusUnprocessableEntity == 422
StatusTooManyRequests == 429
StatusInternalServerError == 500
StatusBadGateway == 502
StatusServiceUnavailable == 503
StatusGatewayTimeout == 504

MethodGet == "GET"
MethodPost == "POST"
MethodPut == "PUT"
MethodPatch == "PATCH"
MethodDelete == "DELETE"
MethodHead == "HEAD"

Methods == {MethodGet, MethodPost, MethodPut, MethodPatch, MethodDelete, MethodHead}

\* The error sentinels of the package (errors.New values).
ErrUserAccessDenied == "ErrUserAccessDenied"
ErrNotFound == "ErrNotFound"
ErrTooManyRequests == "ErrTooManyRequests"
ErrNilResponse == "ErrNilResponse"
ErrUnprocessableEntity == "ErrUnprocessableEntity"
ErrInternalServerError == "ErrInternalServerError"
ErrBadRequest == "ErrBadRequest"
ErrBadGateway == "ErrBadGateway"
ErrServiceUnavailable == "ErrServiceUnavailable"
ErrGatewayTimeout == "ErrGatewayTimeout"
ErrUnhandled == "ErrUnhandled"
ErrRetriable == "ErrRetriable"

\* The message formats of the errors built with fmt.Errorf.
failMsg == "failed to create %s request: %w"
makeMsg == "failed to make request [%s:%s]: %w"
parseMsg == "could not parse response body: %w [%s:%s] %s"
statusMsg == "request failed, %d status code received: %s"

\* ------------------------------------------------------------ error values

\* An error value: the format that built it, the sentinels and causes
\* errors.Is finds in it, and the values its text is formatted from.
MkError(f, is, m, u, s, b) ==
    [fmt |-> f, is |-> is, method |-> m, url |-> u, status |-> s, body |-> b]

\* The nil error.
NilError == MkError("nil", {}, "", "", 0, <<>>)

\* errors.New(name): a sentinel.
Sentinel(name) == MkError(name, {name}, "", "", 0, <<>>)

\* errors.Join(e, sentinel): e's text, matching the sentinel as well.
Join(e, s) == [e EXCEPT !.is = @ \cup {s}]

\* ------------------------------------------------------------- input sets

GoodURL == "https://my.path/test"
BadURL == ":bad"

\* url.Parse inside http.NewRequest: BadURL has no scheme and is refused.
ParseOK(u) == u # BadURL

\* A []byte argument: nil, or the bytes.
NoPayload == [present |-> FALSE, bytes |-> <<>>]
EmptyPayload == [present |-> TRUE, bytes |-> <<>>]
SomePayload == [present |-> TRUE, bytes |-> <<"p">>]

\* http.Header values, as sets of (name, value) pairs.
NoHeader == {}
TestHeader == {<<"Test", "testvalue">>}
LocationHeader == {<<"Location", "https://this.location/">>}

\* The pre-call content of a decode target.
ZeroValue == <<>>

SuccessStatuses == {StatusOK, StatusCreated, StatusAccepted, StatusNoContent}

MappedStatuses ==
    {StatusBadRequest, StatusUnauthorized, StatusForbidden, StatusNotFound,
     StatusUnprocessableEntity, StatusTooManyRequests, StatusInternalServerError,
     StatusBadGateway, StatusServiceUnavailable, StatusGatewayTimeout}

\* Statuses the code does not name: two 2xx ones (203, 206), 304, 410, 507.
OtherStatuses == {203, 206, 304, 410, 507}

Statuses == SuccessStatuses \cup MappedStatuses \cup OtherStatuses

\* Response bodies: every byte string over the two brackets up to MaxBody.
Byte == {"[", "]"}
Bodies == UNION {[1..n -> Byte] : n \in 0..MaxBody}

\* ------------------------------------------------- encoding/json, decoding

\* What json.Decoder.Decode does with a body over Byte: it scans the first
\* JSON value and stops there. i is the next byte, depth the open arrays,
\* st what the scanner expects: "value" (top level), "first" (after "[": a
\* value or "]"), "next" (after an element: "," or "]").  The result says
\* whether a value was read, how many bytes the scanner consumed, and the
\* error otherwise.
RECURSIVE ScanFrom(_, _, _, _)
ScanFrom(b, i, depth, st) ==
    IF i > Len(b)
    THEN [ok |-> FALSE, n |-> Len(b),
          err |-> IF st = "value" THEN "io.EOF" ELSE "io.ErrUnexpectedEOF"]
    ELSE IF b[i] = "[" /\ st \in {"value", "first"}
    THEN ScanFrom(b, i + 1, depth + 1, "first")
    ELSE IF b[i] = "]" /\ st \in {"first", "next"}
    THEN IF depth = 1
         THEN [ok |-> TRUE, n |-> i, err |-> ""]
         ELSE ScanFrom(b, i + 1, depth - 1, "next")
    ELSE [ok |-> FALSE, n |-> i, err |-> "json.SyntaxError"]

Scan(b) == ScanFrom(b, 1, 0, "value")

\* The prefixes of the body the decoder may have pulled through the
\* TeeReader when Decode returns: at least the bytes it consumed, and as
\* many more as the reads it issued happened to deliver.
ReadAhead(b) == {SubSeq(b, 1, k) : k \in Scan(b).n..Len(b)}

\* The value Decode stores in the target: the first JSON value of the body.
Decoded(b) == SubSeq(b, 1, Scan(b).n)

\* ------------------------------------------------------------------- state

VARIABLES
    client,     \* the Client: its transport and its options
    started,    \* the calls this run makes
    pc,         \* where each call is
    args,       \* the arguments each call was made with
    req,        \* each call's *http.Request
    ctxErr,     \* each call's context: "" while live, else its Err()
    wire,       \* the request each call's transport was handed
    rt,         \* what each call's transport returned
    bodyState,  \* the response body the transport opened: none, open, closed
    carrier,    \* the caller's http.Header variable behind each headers pointer
    target,     \* the caller's variable behind each decode target
    bufs,       \* the bytes.Buffer each call's decoder tees into
    result,     \* the error each call returned
    sink        \* what log.Printf has written

vars ==
    <<client, started, pc, args, req, ctxErr, wire, rt, bodyState, carrier,
      target, bufs, result, sink>>

NoArgs ==
    [verb |-> "", url |-> "", payload |-> NoPayload, hasTarget |-> FALSE,
     hasHeaders |-> FALSE, headers |-> NoHeader]

NoRequest ==
    [Method |-> "", URL |-> "", Header |-> NoHeader, Body |-> NoPayload,
     ctx |-> "none"]

NoOutcome ==
    [kind |-> "none", status |-> 0, header |-> NoHeader, body |-> <<>>,
     cause |-> ""]

\* The arguments a caller can pass: Get has no payload parameter and Head
\* no decode target. A run with one call draws from all of them; a run with
\* concurrent calls from two: a Get with a decode target and a Post with a
\* payload and none, both with a valid URL and a header carrier.
ArgsOf(wide) ==
    {a \in [verb : Methods, url : IF wide THEN {GoodURL, BadURL} ELSE {GoodURL},
            payload : {NoPayload, EmptyPayload, SomePayload}, hasTarget : BOOLEAN,
            hasHeaders : IF wide THEN BOOLEAN ELSE {TRUE},
            headers : {NoHeader, TestHeader}] :
        /\ a.verb = MethodGet => a.payload = NoPayload
        /\ a.verb = MethodHead => ~a.hasTarget
        /\ a.headers = (IF a.hasHeaders THEN TestHeader ELSE NoHeader)
        /\ ~wide => a.verb \in {MethodGet, MethodPost}
        /\ ~wide => a.payload = (IF a.verb = MethodPost THEN SomePayload
                                  ELSE NoPayload)
        /\ ~wide => (a.hasTarget <=> a.verb = MethodGet)}

\* What a transport can return: an error, a nil response with a nil error,
\* or a response. A run with concurrent calls draws from four of them.
OutcomesOf(wide) ==
    IF wide
    THEN {[NoOutcome EXCEPT !.kind = "err", !.cause = "net.OpError"],
          [NoOutcome EXCEPT !.kind = "nil"]}
         \cup [kind : {"resp"}, status : Statuses,
               header : {NoHeader, LocationHeader}, body : Bodies, cause : {""}]
    ELSE {[NoOutcome EXCEPT !.kind = "err", !.cause = "net.OpError"],
          [NoOutcome EXCEPT !.kind = "resp", !.status = StatusOK,
                            !.header = LocationHeader, !.body = <<"[", "]">>],
          [NoOutcome EXCEPT !.kind = "resp", !.status = StatusOK,
                            !.header = LocationHeader, !.body = <<"]">>],
          [NoOutcome EXCEPT !.kind = "resp", !.status = StatusServiceUnavailable]}

Wide == Cardinality(started) = 1

\* New(httpClient, options): the Client holds the transport and the options.
New(httpClient, debug) ==
    [httpClient |-> httpClient, options |-> [Debug |-> debug]]

InitCommon ==
    /\ pc = [p \in Calls |-> "idle"]
    /\ args = [p \in Calls |-> NoArgs]
    /\ req = [p \in Calls |-> NoRequest]
    /\ ctxErr = [p \in Calls |-> ""]
    /\ wire = [p \in Calls |-> NoRequest]
    /\ rt = [p \in Calls |-> NoOutcome]
    /\ bodyState = [p \in Calls |-> "none"]
    /\ carrier = [p \in Calls |-> NoHeader]
    /\ target = [p \in Calls |-> ZeroValue]
    /\ bufs = [p \in Calls |-> <<>>]
    /\ result = [p \in Calls |-> NilError]
    /\ sink = <<>>

\* One caller makes one call.
Init ==
    /\ \E debug \in BOOLEAN : client = New("transport", debug)
    /\ started = {1}
    /\ InitCommon

\* NumCalls callers make one call each, concurrently.
ConcInit ==
    /\ \E debug \in BOOLEAN : client = New("transport", debug)
    /\ started = Calls
    /\ InitCommon

\* ------------------------------------------------------------- newRequest

\* http.NewRequest(method, apiURL, reqBody): no headers yet, and the
\* background context.
NewHTTPRequest(method, url, payload) ==
    [Method |-> method, URL |-> url, Header |-> NoHeader, Body |-> payload,
     ctx |-> "background"]

\* A newRequest that forgets the caller's context.
WithoutContext(r, ctx) == r

\* req.WithContext(ctx)
WithContext(r, ctx) == [r EXCEPT !.ctx = ctx]

\* httputil.DumpRequest(req, true): the request line, the headers and a copy
\* of the body; the request keeps its body.
DumpRequest(p, r) ==
    [call |-> p, dump |-> "request", method |-> r.Method, url |-> r.URL,
     status |-> 0, header |-> r.Header, body |-> r.Body.bytes]

\* httputil.DumpResponse(resp, true): the status line, the headers and a
\* copy of the body.
DumpResponse(p, o) ==
    [call |-> p, dump |-> "response", method |-> "", url |-> "",
     status |-> o.status, header |-> o.header, body |-> o.body]

\* if c.options.Debug { log.Printf("%s", body) }
Log(debug, s, entry) == IF debug THEN Append(s, entry) ELSE s

\* The error a verb returns when newRequest fails.
ConstructionError(method, url) ==
    MkError(failMsg, {"url.Error"}, method, url, 0, <<>>)

\* A verb's entry point up to the end of newRequest: the caller passes its
\* arguments, the request is built, dumped when Debug is set, and given the
\* caller's context; or the URL does not parse and the call returns.
Call(p) ==
    /\ p \in started
    /\ pc[p] = "idle"
    /\ \E a \in ArgsOf(Wide) :
        LET r == NewHTTPRequest(a.verb, a.url, a.payload) IN
        /\ args' = [args EXCEPT ![p] = a]
        /\ carrier' = [carrier EXCEPT ![p] = a.headers]
        /\ IF ParseOK(a.url)
           THEN /\ sink' = Log(client.options.Debug, sink, DumpRequest(p, r))
                /\ req' = [req EXCEPT ![p] = WithContext(r, "caller")]
                /\ pc' = [pc EXCEPT ![p] = "built"]
                /\ UNCHANGED result
           ELSE /\ result' = [result EXCEPT ![p] = ConstructionError(a.verb, a.url)]
                /\ pc' = [pc EXCEPT ![p] = "done"]
                /\ UNCHANGED <<req, sink>>
    /\ UNCHANGED <<client, started, ctxErr, wire, rt, bodyState, target, bufs>>

\* -------------------------------------------------------------- doRequest

\* A doRequest that leaves the request's own headers in place.
KeepHeader(r, hasHeaders, h) == r

\* if headers != nil { r.Header = *headers }
AttachHeaders(r, hasHeaders, h) ==
    IF hasHeaders THEN [r EXCEPT !.Header = h] ELSE r

\* doRequest up to the call of the transport inside do: the headers are
\* attached and the request is handed to c.httpClient.Do.
SendRequest(p) ==
    /\ pc[p] = "built"
    /\ LET r == AttachHeaders(req[p], args[p].hasHeaders, carrier[p]) IN
        /\ req' = [req EXCEPT ![p] = r]
        /\ wire' = [wire EXCEPT ![p] = r]
    /\ pc' = [pc EXCEPT ![p] = "inflight"]
    /\ UNCHANGED <<client, started, args, ctxErr, rt, bodyState, carrier,
                   target, bufs, result, sink>>

\* -------------------------------------------------- caller and transport

\* The caller cancels the call's context, or its deadline passes, before
\* the transport has responded.
Cancel(p) ==
    /\ pc[p] \in {"built", "inflight"}
    /\ ctxErr[p] = ""
    /\ \E e \in (IF Wide THEN {"context.Canceled", "context.DeadlineExceeded"}
                 ELSE {"context.Canceled"}) :
        ctxErr' = [ctxErr EXCEPT ![p] = e]
    /\ UNCHANGED <<client, started, pc, args, req, wire, rt, bodyState,
                   carrier, target, bufs, result, sink>>

\* The context the request carries is done.
CtxDone(r, e) == r.ctx = "caller" /\ e # ""

\* The transport answers a request whose context is live.
RoundTrip(p) ==
    /\ pc[p] = "inflight"
    /\ ~CtxDone(req[p], ctxErr[p])
    /\ \E o \in OutcomesOf(Wide) :
        /\ rt' = [rt EXCEPT ![p] = o]
        /\ bodyState' = [bodyState EXCEPT ![p] =
                            IF o.kind = "resp" THEN "open" ELSE "none"]
    /\ pc' = [pc EXCEPT ![p] = "responded"]
    /\ UNCHANGED <<client, started, args, req, ctxErr, wire, carrier, target,
                   bufs, result, sink>>

\* The transport gives up a request whose context is done: it returns the
\* context's error.
Abort(p) ==
    /\ pc[p] = "inflight"
    /\ CtxDone(req[p], ctxErr[p])
    /\ rt' = [rt EXCEPT ![p] = [NoOutcome EXCEPT !.kind = "err",
                                                 !.cause = ctxErr[p]]]
    /\ pc' = [pc EXCEPT ![p] = "responded"]
    /\ UNCHANGED <<client, started, args, req, ctxErr, wire, bodyState,
                   carrier, target, bufs, result, sink>>

\* --------------------------------------------------------------------- do

\* c.httpClient.Do(r) on an *http.Client: what the transport returned,
\* except that a nil response with a nil error is reported as an error, so
\* do never sees a nil response without an error.
HttpClientDo(o) ==
    IF o.kind = "nil"
    THEN [o EXCEPT !.kind = "err", !.cause = "nil *Response with a nil error"]
    ELSE o

\* The error do returns when c.httpClient.Do fails.
TransportError(method, url, cause) ==
    MkError(makeMsg, {cause}, method, url, 0, <<>>)

\* A classifier that takes every 2xx status for a success.
IsAny2xx(status) == status \in 200..299

\* The first switch of do: the statuses returned as a success.
IsSuccess(status) ==
    status \in {StatusOK, StatusCreated, StatusAccepted, StatusNoContent}

\* A 422 that is not joined with ErrRetriable.
UnprocessablePlain == Sentinel(ErrUnprocessableEntity)

\* case http.StatusUnprocessableEntity
UnprocessableError == Join(Sentinel(ErrUnprocessableEntity), ErrRetriable)

\* The second switch of do and the line after it: the error of a status
\* that is no success, b being the bytes read from the body.
Classify(status, b) ==
    CASE status = StatusNotFound -> Sentinel(ErrNotFound)
      [] status \in {StatusUnauthorized, StatusForbidden} ->
            Sentinel(ErrUserAccessDenied)
      [] status = StatusTooManyRequests ->
            Join(Sentinel(ErrTooManyRequests), ErrRetriable)
      [] status = StatusUnprocessableEntity -> UnprocessableError
      [] status = StatusInternalServerError ->
            Join(Sentinel(ErrInternalServerError), ErrRetriable)
      [] status = StatusBadGateway ->
            Join(Sentinel(ErrBadGateway), ErrRetriable)
      [] status = StatusServiceUnavailable ->
            Join(Sentinel(ErrServiceUnavailable), ErrRetriable)
      [] status = StatusGatewayTimeout ->
            Join(Sentinel(ErrGatewayTimeout), ErrRetriable)
      [] status = StatusBadRequest -> Sentinel(ErrBadRequest)
      [] OTHER -> Join(MkError(statusMsg, {}, "", "", status, b), ErrUnhandled)

\* DumpResponse drains the body into memory and closes it; without Debug
\* the body is as the transport left it.
AfterDump(debug, st) == IF debug THEN "closed" ELSE st

\* A do that returns without closing the body.
NoClose(st) == st

\* defer resp.Body.Close() in do
DeferClose(st) == "closed"

\* do after c.httpClient.Do has returned: a transport error is wrapped and
\* returned; otherwise the response is dumped when Debug is set, a success
\* status hands the response to doRequest, and any other status has its
\* body read and closed and its error returned through doRequest.
Do(p) ==
    /\ pc[p] = "responded"
    /\ LET o == HttpClientDo(rt[p])
           st == AfterDump(client.options.Debug, bodyState[p])
       IN  IF o.kind = "err"
           THEN /\ result' = [result EXCEPT ![p] =
                                TransportError(req[p].Method, req[p].URL, o.cause)]
                /\ pc' = [pc EXCEPT ![p] = "done"]
                /\ UNCHANGED <<bodyState, sink>>
           ELSE /\ sink' = Log(client.options.Debug, sink, DumpResponse(p, o))
                /\ IF IsSuccess(o.status)
                   THEN /\ bodyState' = [bodyState EXCEPT ![p] = st]
                        /\ pc' = [pc EXCEPT ![p] = "handle"]
                        /\ UNCHANGED result
                   ELSE /\ bodyState' = [bodyState EXCEPT ![p] = DeferClose(st)]
                        /\ result' = [result EXCEPT ![p] = Classify(o.status, o.body)]
                        /\ pc' = [pc EXCEPT ![p] = "done"]
    /\ UNCHANGED <<client, started, args, req, ctxErr, wire, rt, carrier,
                   target, bufs>>

\* ------------------------------------------------- doRequest, the response

\* A doRequest that adds the response's headers to the caller's.
MergeHeader(old, h) == old \cup h

\* *headers = resp.Header.Clone()
CloneHeader(old, h) == h

\* One buffer for all the calls of the Client.
SharedBuf(p) == 1

\* var buf bytes.Buffer: each call declares its own.
BufOf(p) == p

\* A decode error that leaves the body text out.
DecodeErrorBare(err, method, url, text) ==
    MkError(parseMsg, {err}, method, url, 0, <<>>)

\* The error doRequest returns when Decode fails.
DecodeError(err, method, url, text) ==
    MkError(parseMsg, {err}, method, url, 0, text)

\* doRequest after do has returned a response: the caller's headers are
\* overwritten, the body is drained, or decoded into the target through a
\* TeeReader, and the deferred Close runs.
HandleResponse(p) ==
    /\ pc[p] = "handle"
    /\ LET o == HttpClientDo(rt[p])
           a == args[p]
       IN  IF o.kind # "resp"
           THEN \* if resp == nil { return ErrNilResponse }: do never
                \* returns a nil response with a nil error.
                /\ result' = [result EXCEPT ![p] = Sentinel(ErrNilResponse)]
                /\ UNCHANGED <<bodyState, carrier, target, bufs>>
           ELSE /\ bodyState' = [bodyState EXCEPT ![p] = "closed"]
                /\ carrier' = [carrier EXCEPT ![p] =
                                 IF a.hasHeaders THEN CloneHeader(@, o.header)
                                 ELSE @]
                /\ IF ~a.hasTarget
                   THEN /\ result' = [result EXCEPT ![p] = NilError]
                        /\ UNCHANGED <<target, bufs>>
                   ELSE \E read \in ReadAhead(o.body) :
                        /\ bufs' = [bufs EXCEPT ![BufOf(p)] = @ \o read]
                        /\ IF Scan(o.body).ok
                           THEN /\ target' = [target EXCEPT ![p] = Decoded(o.body)]
                                /\ result' = [result EXCEPT ![p] = NilError]
                           ELSE /\ result' = [result EXCEPT ![p] =
                                        DecodeError(Scan(o.body).err, req[p].Method,
                                                    req[p].URL, bufs'[BufOf(p)])]
                                /\ UNCHANGED target
    /\ pc' = [pc EXCEPT ![p] = "done"]
    /\ UNCHANGED <<client, started, args, req, ctxErr, wire, rt, sink>>

\* ---------------------------------------------------------- specifications

Next ==
    \E p \in Calls :
        \/ Call(p)
        \/ SendRequest(p)
        \/ Cancel(p)
        \/ RoundTrip(p)
        \/ Abort(p)
        \/ Do(p)
        \/ HandleResponse(p)

\* One call on a Client.
Spec == Init /\ [][Next]_vars

\* NumCalls concurrent calls on one Client.
ConcSpec == ConcInit /\ [][Next]_vars

\* One call whose goroutine keeps running and whose transport returns once
\* the request's context is done; a transport whose request has a live
\* context may take forever.
FairSpec ==
    /\ Spec
    /\ \A p \in Calls :
        /\ WF_vars(SendRequest(p))
        /\ WF_vars(Abort(p))
        /\ WF_vars(Do(p))
        /\ WF_vars(HandleResponse(p))

\* ------------------------------------------------- vocabulary of the claims

\* The call has returned.
Returned(p) == pc[p] = "done"

\* The call has returned and its transport had returned a response.
Responded(p) == Returned(p) /\ rt[p].kind = "resp"

\* The error carries the Retriable marker.
Retriable(e) == ErrRetriable \in e.is

\* The kinds of the taxonomy an error matches: by sentinel, or by the
\* message of the wrapping error.
KindsOf(e) ==
    {k \in {"AccessDenied", "NotFound", "TooManyRequests", "NilResponse",
            "UnprocessableEntity", "InternalServerError", "BadRequest",
            "BadGateway", "ServiceUnavailable", "GatewayTimeout", "Unhandled",
            "ConstructionError", "TransportError", "DecodeError"} :
        \/ k = "AccessDenied" /\ ErrUserAccessDenied \in e.is
        \/ k = "NotFound" /\ ErrNotFound \in e.is
        \/ k = "TooManyRequests" /\ ErrTooManyRequests \in e.is
        \/ k = "NilResponse" /\ ErrNilResponse \in e.is
        \/ k = "UnprocessableEntity" /\ ErrUnprocessableEntity \in e.is
        \/ k = "InternalServerError" /\ ErrInternalServerError \in e.is
        \/ k = "BadRequest" /\ ErrBadRequest \in e.is
        \/ k = "BadGateway" /\ ErrBadGateway \in e.is
        \/ k = "ServiceUnavailable" /\ ErrServiceUnavailable \in e.is
        \/ k = "GatewayTimeout" /\ ErrGatewayTimeout \in e.is
        \/ k = "Unhandled" /\ ErrUnhandled \in e.is
        \/ k = "ConstructionError" /\ e.fmt = failMsg
        \/ k = "TransportError" /\ e.fmt = makeMsg
        \/ k = "DecodeError" /\ e.fmt = parseMsg}

\* The classifier table of the specification.
TableKind(s) ==
    CASE s \in {200, 201, 202, 204} -> "none"
      [] s = 400 -> "BadRequest"
      [] s \in {401, 403} -> "AccessDenied"
      [] s = 404 -> "NotFound"
      [] s = 422 -> "UnprocessableEntity"
      [] s = 429 -> "TooManyRequests"
      [] s = 500 -> "InternalServerError"
      [] s = 502 -> "BadGateway"
      [] s = 503 -> "ServiceUnavailable"
      [] s = 504 -> "GatewayTimeout"
      [] OTHER -> "Unhandled"

TableRetriable(s) == s \in {422, 429, 500, 502, 503, 504}

\* The call's result is the table's entry for the status it received.
FollowsTable(p) ==
    LET s == rt[p].status
        e == result[p]
    IN  IF TableKind(s) = "none"
        THEN e = NilError
        ELSE /\ KindsOf(e) = {TableKind(s)}
             /\ Retriable(e) <=> TableRetriable(s)
             /\ TableKind(s) = "Unhandled" =>
                    e.status = s /\ e.body = rt[p].body

\* The whole body is one JSON value.
ValidJSON(b) == Scan(b).ok /\ Scan(b).n = Len(b)

\* The body begins with a complete JSON value.
StartsWithValue(b) == \E k \in 1..Len(b) : ValidJSON(SubSeq(b, 1, k))

IsPrefix(s, t) == Len(s) <= Len(t) /\ s = SubSeq(t, 1, Len(s))

\* The call failed with a DecodeError that is not Retriable and names the
\* request's method and URL.
IsDecodeError(p) ==
    /\ KindsOf(result[p]) = {"DecodeError"}
    /\ ~Retriable(result[p])
    /\ result[p].method = args[p].verb
    /\ result[p].url = args[p].url

\* ------------------------------------------------------------------ claims

C2_Original ==
    \A p \in Calls :
        Responded(p) /\ rt[p].status \in 200..299 /\ args[p].hasHeaders =>
            carrier[p] = rt[p].header

\* C2, amended: after a call that received 200, 201, 202 or 204 and was
\* given a header carrier, the carrier holds exactly the response's headers,
\* not merged with what it held, with or without a decode target.
C2_HeadersOverwritten ==
    \A p \in Calls :
        /\ Responded(p)
        /\ rt[p].status \in {200, 201, 202, 204}
        /\ args[p].hasHeaders
        => carrier[p] = rt[p].header

\* A Head call that sent a header received a 204 with another header, and
\* its carrier holds the response's header only.
C2_Witness ==
    \E p \in Calls :
        /\ Responded(p)
        /\ args[p].verb = MethodHead
        /\ rt[p].status = 204
        /\ args[p].headers = TestHeader
        /\ rt[p].header = LocationHeader
        /\ carrier[p] = LocationHeader

\* C3, as stated: a call with a decode target that received a 2xx status
\* and a body that is not valid JSON fails with a DecodeError, not
\* Retriable, whose text holds the method, the URL and the body.
C3_Original ==
    \A p \in Calls :
        /\ Responded(p)
        /\ rt[p].status \in 200..299
        /\ args[p].hasTarget
        /\ ~ValidJSON(rt[p].body)
        => IsDecodeError(p) /\ result[p].body = rt[p].body

\* C3, amended: a call with a decode target that received 200, 201, 202 or
\* 204 and a body that does not begin with a complete JSON value fails with
\* a DecodeError, not Retriable, whose text holds the method, the URL and
\* the part of the body the decoder had read, which reaches the byte that
\* failed to parse.
C3_DecodeError ==
    \A p \in Calls :
        /\ Responded(p)
        /\ rt[p].status \in {200, 201, 202, 204}
        /\ args[p].hasTarget
        /\ ~StartsWithValue(rt[p].body)
        => /\ IsDecodeError(p)
           /\ IsPrefix(result[p].body, rt[p].body)
           /\ Len(result[p].body) >= Scan(rt[p].body).n

\* A Post received a 200 whose body is a stray "]" and failed with a
\* DecodeError quoting it.
C3_Witness ==
    \E p \in Calls :
        /\ Responded(p)
        /\ args[p].verb = MethodPost
        /\ rt[p].status = 200
        /\ rt[p].body = <<"]">>
        /\ IsDecodeError(p)
        /\ result[p].body = <<"]">>

\* C4: no call has returned while a response body its transport opened is
\* still open.
C4_BodiesClosed == \A p \in Calls : Returned(p) => bodyState[p] # "open"

\* Without Debug, a call received a 200 whose body fails to decode and
\* returned the DecodeError with the body closed.
C4_Witness ==
    /\ ~client.options.Debug
    /\ \E p \in Calls :
        /\ Responded(p)
        /\ rt[p].status = 200
        /\ KindsOf(result[p]) = {"DecodeError"}
        /\ bodyState[p] = "closed"

\* The result of a call whose context fired before the transport responded:
\* a transport error that wraps the context's error, names the method and
\* the URL and is not Retriable.
CancelledResult(p) ==
    /\ KindsOf(result[p]) = {"TransportError"}
    /\ ctxErr[p] \in result[p].is
    /\ result[p].method = args[p].verb
    /\ result[p].url = args[p].url
    /\ ~Retriable(result[p])

\* C5: a call whose context fires while the request is in flight and
\* unanswered returns, and what it returns is a transport error wrapping
\* the cancellation cause, never a success or a status error.
C5_Cancellation ==
    /\ [](\A p \in Calls : Returned(p) /\ ctxErr[p] # "" => CancelledResult(p))
    /\ \A p \in Calls : (pc[p] = "inflight" /\ ctxErr[p] # "") ~> Returned(p)

\* A call whose deadline passed has returned the wrapped DeadlineExceeded.
C5_Witness ==
    \E p \in Calls :
        /\ Returned(p)
        /\ ctxErr[p] = "context.DeadlineExceeded"
        /\ CancelledResult(p)

\* What a call returns when it runs alone with these arguments and this
\* answer of the transport.
SoloResults(a, o) ==
    IF o.kind # "resp"
    THEN {TransportError(a.verb, a.url, HttpClientDo(o).cause)}
    ELSE IF ~IsSuccess(o.status)
    THEN {Classify(o.status, o.body)}
    ELSE IF ~a.hasTarget \/ Scan(o.body).ok
    THEN {NilError}
    ELSE {DecodeError(Scan(o.body).err, a.verb, a.url, read) :
            read \in ReadAhead(o.body)}

\* The header carrier and the decode target such a call leaves.
SoloCarrier(a, o) ==
    IF a.hasHeaders /\ o.kind = "resp" /\ IsSuccess(o.status)
    THEN o.header
    ELSE a.headers

SoloTarget(a, o) ==
    IF o.kind = "resp" /\ IsSuccess(o.status) /\ a.hasTarget /\ Scan(o.body).ok
    THEN Decoded(o.body)
    ELSE ZeroValue

\* C6: whatever the interleaving of the concurrent calls, each call that
\* got past request construction returns what it returns alone, leaves its
\* carrier and target as it does alone, and no step changes the Client.
C6_Isolation ==
    /\ [](\A p \in Calls :
            Returned(p) /\ rt[p].kind # "none" =>
                /\ result[p] \in SoloResults(args[p], rt[p])
                /\ carrier[p] = SoloCarrier(args[p], rt[p])
                /\ target[p] = SoloTarget(args[p], rt[p]))
    /\ [][client' = client]_vars

\* Two concurrent calls have both failed to decode their own bodies.
C6_Witness ==
    \E p, q \in Calls :
        /\ p # q
        /\ Responded(p) /\ KindsOf(result[p]) = {"DecodeError"}
        /\ Responded(q) /\ KindsOf(result[q]) = {"DecodeError"}

\* C7, as stated: a call whose transport returned a nil response and no
\* error returns NilResponse, not Retriable.
C7_Original ==
    \A p \in Calls :
        Returned(p) /\ rt[p].kind = "nil" =>
            KindsOf(result[p]) = {"NilResponse"} /\ ~Retriable(result[p])

\* C8: the request handed to the transport carries exactly the headers the
\* caller put in the carrier, from before the transport acts on it.
C8_HeadersSent ==
    \A p \in Calls :
        (pc[p] = "inflight" \/ rt[p].kind # "none") /\ args[p].hasHeaders =>
            wire[p].Header = args[p].headers

\* A Get or a Post with a nil payload and a nil decode target was answered,
\* and the transport had been handed the caller's header.
C8_Witness ==
    \E p \in Calls :
        /\ rt[p].kind = "resp"
        /\ args[p].verb \in {MethodGet, MethodPost}
        /\ ~args[p].payload.present
        /\ ~args[p].hasTarget
        /\ args[p].headers = TestHeader
        /\ wire[p].Header = TestHeader

\* C9, as stated: with Debug, once a request is in flight the sink holds a
\* dump of it with the headers and the body the transport was handed, and
\* that body is the caller's payload; without Debug the sink is empty.
C9_Original ==
    \A p \in Calls :
        (pc[p] = "inflight" \/ rt[p].kind # "none") =>
            IF client.options.Debug
            THEN /\ wire[p].Body = args[p].payload
                 /\ \E i \in 1..Len(sink) :
                        /\ sink[i].call = p
                        /\ sink[i].dump = "request"
                        /\ sink[i].header = wire[p].Header
                        /\ sink[i].body = wire[p].Body.bytes
            ELSE sink = <<>>

\* C10: on 200, 201, 202 or 204 a supplied carrier holds the response's
\* headers when the call returns, a DecodeError included; after a
\* construction failure, a transport failure or any other status the
\* carrier and the decode target are as they were before the call.
C10_Frame ==
    \A p \in Calls :
        Returned(p) =>
            IF rt[p].kind = "resp" /\ rt[p].status \in {200, 201, 202, 204}
            THEN carrier[p] = (IF args[p].hasHeaders THEN rt[p].header
                               ELSE args[p].headers)
            ELSE carrier[p] = args[p].headers /\ target[p] = ZeroValue

\* A call returned a DecodeError with its carrier already replaced and its
\* target untouched.
C10_Witness ==
    \E p \in Calls :
        /\ Responded(p)
        /\ args[p].headers = TestHeader
        /\ KindsOf(result[p]) = {"DecodeError"}
        /\ rt[p].header = LocationHeader
        /\ carrier[p] = LocationHeader
        /\ target[p] = ZeroValue

====
